---------------------------- MODULE Spec2Model ----------------------------
(***************************************************************************)
(* A model of TuyaStub (src/index.js): the stub of a Tuya device that      *)
(* listens for one stream connection, answers Query / Control / Heartbeat  *)
(* packets and keeps an in-memory device state.                            *)
(*                                                                         *)
(* The frame codec and the cipher live in tuyapi/lib/message-parser, which *)
(* is not part of this repository: a frame is modelled as the object the   *)
(* stub hands to parser.encode, a request as the packet object that        *)
(* parser.parse returns.                                                   *)
(***************************************************************************)
EXTENDS Integers, Sequences, FiniteSets, TLC

(***************************************************************************)
(* Bounds of the model.                                                    *)
(***************************************************************************)
\* Sequence numbers of requests range over 0..MaxSeq.
MaxSeq == 1
\* A single 'data' event delivers between 1 and MaxPackets packets.
MaxPackets == 2
\* Connections accepted over the life of the server.
MaxConns == 2
\* Broadcast sockets created over the life of the stub.
MaxUdp == 2

(***************************************************************************)
(* Values of the program.                                                  *)
(***************************************************************************)
\* CommandType.DP_QUERY, and the literal commandByte of the query response.
DP_QUERY == 10
\* CommandType.CONTROL, and the literal commandByte of the acknowledgment.
CONTROL == 7
\* The literal commandByte of the status update that follows it.
STATUS == 8
\* CommandType.HEART_BEAT.
HEART_BEAT == 9
\* "Timestamp difference must be no more than 10 seconds".
MaxSkew == 10

\* The value of a property that an object does not have (no sequenceN in a
\* response object, no t in a request payload).
Undefined == -1

\* Math.floor(Date.now() / 1000) at the time a Control packet is handled.
\* Only now - t is read, so one clock value and timestamps around it cover
\* every skew.
Now == 1000

\* options.id, and some other device's id.
Id == "dev"
DevIds == {Id, "other"}

\* The data points of the example device, in Object.keys order.
KeyOrder == <<"1", "2">>
Keys == {KeyOrder[i] : i \in 1..Len(KeyOrder)}
Values == BOOLEAN

\* Objects mapping some of the data points to values: this.state, a dps map.
DpsMaps == UNION {[S -> Values] : S \in SUBSET Keys}
EmptyState == [k \in {} |-> TRUE]
ExampleState == [k \in Keys |-> k = "2"]

Seqs == 0..MaxSeq
Conns == 1..MaxConns
Udps == 1..MaxUdp

\* Timestamps a Control payload may carry: none, the clock's, the oldest
\* within the limit, and the first beyond it in the past and in the future.
Timestamps == {Undefined, Now - MaxSkew - 1, Now - MaxSkew, Now, Now + MaxSkew + 1}

(***************************************************************************)
(* Packets as parser.parse returns them.  Only a Control payload's t and   *)
(* dps are read; hasDps is FALSE for a payload without a dps property.     *)
(***************************************************************************)
ControlPackets ==
  [commandByte : {CONTROL}, sequenceN : Seqs, devId : DevIds,
   t : Timestamps, hasDps : {TRUE}, dps : DpsMaps]
  \cup
  [commandByte : {CONTROL}, sequenceN : Seqs, devId : DevIds,
   t : Timestamps, hasDps : {FALSE}, dps : {EmptyState}]

OtherPackets ==
  [commandByte : {DP_QUERY, HEART_BEAT, STATUS}, sequenceN : Seqs, devId : DevIds,
   t : {Undefined}, hasDps : {FALSE}, dps : {EmptyState}]

Packets == ControlPackets \cup OtherPackets

\* The value of lastPkt when the last operation handled no packet.
NoPacket ==
  [commandByte |-> 0, sequenceN |-> Undefined, devId |-> "",
   t |-> Undefined, hasDps |-> FALSE, dps |-> EmptyState]

(***************************************************************************)
(* Frames: the objects handed to parser.encode.                            *)
(***************************************************************************)
\* data: {devId: this.id, gwId: this.id, dps: this.state}
StateData(st) == [type |-> "object", value |-> [devId |-> Id, gwId |-> Id, dps |-> st]]
\* data: {}
EmptyObject == [type |-> "object", value |-> <<>>]
\* data: Buffer.allocUnsafe(0)
EmptyBuffer == [type |-> "buffer", value |-> <<>>]

VARIABLES
  state,      \* this.state
  server,     \* this.server: "none" (never started), "listening", "closed"
  socket,     \* this.socket: 0 (undefined) or the connection last accepted
  conn,       \* each connection: "none" (not accepted yet), "open",
              \* "closed" (by the peer), "destroyed" (by shutdown)
  alive,      \* the process has not died of an uncaught exception
  pending,    \* packets of the current 'data' event still to be handled
  cur,        \* the connection whose 'data' event is being handled
  lastOp,     \* the operation that ran last
  lastPkt,    \* the packet it handled
  pre,        \* this.state before it ran
  written,    \* the socket.write calls it made, in order: <<[to, frame]>>
  threw,      \* it threw
  ret,        \* the value it returned, as <<value>>
  broadcastSocket,    \* this.broadcastSocket: 0 (undefined) or the socket last created
  broadcastInterval,  \* this.broadcastInterval: 0 (undefined) or a timer
  usock,      \* each broadcast socket: "none" (not created yet), "binding",
              \* "listening", "closed"
  timers,     \* the interval timers that are active, each named after the
              \* socket whose 'listening' event created it
  read,       \* the packets of the 'data' event handled last as a whole
  log,        \* the writes made for them, in order: <<[index, to, frame]>>
  step        \* inside the Control handler: the key to set next (0: outside)

\* The broadcast side of the stub.
bcast == <<broadcastSocket, broadcastInterval, usock, timers>>

vars ==
  <<state, server, socket, conn, alive, pending, cur,
    lastOp, lastPkt, pre, written, threw, ret, bcast, read, log, step>>


(***************************************************************************)
(* Helpers.                                                                *)
(***************************************************************************)
Abs(x) == IF x < 0 THEN -x ELSE x

\* Object.keys(dps): the keys the object has, in enumeration order.
ObjectKeys(dps) == SelectSeq(KeyOrder, LAMBDA k : k \in DOMAIN dps)

\* One socket.write call: this.socket at the time of the call, and the frame.
Write(sock, frame) == [to |-> sock, frame |-> frame]

\* The result of running a piece of a handler: this.state afterwards, the
\* writes made, whether it threw.
Done(st, writes) == [state |-> st, written |-> writes, threw |-> FALSE]
Throw(st, writes) == [state |-> st, written |-> writes, threw |-> TRUE]

(***************************************************************************)
(* setProperty(property, value).                                           *)
(***************************************************************************)
\* A slip: the state is replaced by an object holding the property alone.
AssignOnlyProperty(st, property, value) == [k \in {property} |-> value]

\* this.state[property] = value
AssignProperty(st, property, value) ==
  [k \in DOMAIN st \cup {property} |-> IF k = property THEN value ELSE st[k]]

\* The push of setProperty: CommandType.CONTROL, no sequenceN, the whole state.
PropertyPush(st) ==
  [commandByte |-> CONTROL, sequenceN |-> Undefined, data |-> StateData(st)]

\* if (this.server && this.socket) this.socket.write(...)
PushWrites(st, srv, sock) ==
  IF srv # "none" /\ sock # 0 THEN <<Write(sock, PropertyPush(st))>> ELSE <<>>

SetProperty(st, srv, sock, property, value) ==
  LET st2 == AssignProperty(st, property, value)
  IN  [state |-> st2, written |-> PushWrites(st2, srv, sock), ret |-> st2[property]]

(***************************************************************************)
(* _handleRequest: the body of parsedPackets.forEach, for one packet.      *)
(***************************************************************************)
\* A slip: the response carries an empty dps instead of this.state.
QueryResponseNoState(packet, st) ==
  [commandByte |-> DP_QUERY, sequenceN |-> packet.sequenceN, data |-> StateData(EmptyState)]

\* The response to a GET request.
QueryResponse(packet, st) ==
  [commandByte |-> DP_QUERY, sequenceN |-> packet.sequenceN, data |-> StateData(st)]

\* A slip: the acknowledgment is built without the sequenceN line.
ConfirmChangeNoSequence(packet) ==
  [commandByte |-> CONTROL, sequenceN |-> Undefined, data |-> EmptyObject]

\* The first part of the response to a SET request.
ConfirmChangeResponse(packet) ==
  [commandByte |-> CONTROL, sequenceN |-> packet.sequenceN, data |-> EmptyObject]

\* Its second part.
StatusUpdateResponse(st) ==
  [commandByte |-> STATUS, sequenceN |-> Undefined, data |-> StateData(st)]

\* The pong.
HeartbeatResponse(packet) ==
  [commandByte |-> HEART_BEAT, sequenceN |-> packet.sequenceN, data |-> EmptyBuffer]

\* A slip: the device id check is left out.
DevIdUnchecked(packet) == FALSE

\* packet.payload.devId !== this.id
DevIdMismatch(packet) == packet.devId # Id

\* A slip: the limit is off by one second.
BadTimestampOffByOne(now, t) ==
  IF t = Undefined THEN FALSE ELSE Abs(now - t) > MaxSkew + 1

\* Math.abs(now - decryptedData.t) > 10; with t undefined the difference is
\* NaN, and NaN > 10 is false.
BadTimestamp(now, t) == IF t = Undefined THEN FALSE ELSE Abs(now - t) > MaxSkew

\* Object.keys(dps).forEach(property => this.setProperty(property, dps[property]))
\* from the i-th key on, given the state and the writes so far.
RECURSIVE SetProperties(_, _, _, _, _, _)
SetProperties(keys, i, dps, acc, srv, sock) ==
  IF i > Len(keys) THEN acc
  ELSE LET r == SetProperty(acc.state, srv, sock, keys[i], dps[keys[i]])
       IN  SetProperties(keys, i + 1, dps,
                         [state |-> r.state, written |-> acc.written \o r.written],
                         srv, sock)

HandleQuery(packet, st, sock) ==
  IF DevIdMismatch(packet) THEN Throw(st, <<>>)
  ELSE Done(st, <<Write(sock, QueryResponse(packet, st))>>)

\* A slip: the properties are set before the timestamp is checked.
HandleControlSetFirst(packet, st, srv, sock, now) ==
  IF DevIdMismatch(packet) THEN Throw(st, <<>>)
  ELSE IF ~packet.hasDps THEN Throw(st, <<>>)
  ELSE LET set == SetProperties(ObjectKeys(packet.dps), 1, packet.dps,
                                [state |-> st, written |-> <<>>], srv, sock)
       IN  IF BadTimestamp(now, packet.t) THEN Throw(set.state, set.written)
           ELSE Done(set.state,
                     set.written
                       \o <<Write(sock, ConfirmChangeResponse(packet)),
                            Write(sock, StatusUpdateResponse(set.state))>>)

HandleControl(packet, st, srv, sock, now) ==
  IF DevIdMismatch(packet) THEN Throw(st, <<>>)
  ELSE IF BadTimestamp(now, packet.t) THEN Throw(st, <<>>)
  \* Object.keys(undefined) is a TypeError
  ELSE IF ~packet.hasDps THEN Throw(st, <<>>)
  ELSE LET set == SetProperties(ObjectKeys(packet.dps), 1, packet.dps,
                                [state |-> st, written |-> <<>>], srv, sock)
       IN  Done(set.state,
                set.written
                  \o <<Write(sock, ConfirmChangeResponse(packet)),
                       Write(sock, StatusUpdateResponse(set.state))>>)

\* A slip: the heartbeat is checked for the device id like the other requests.
HandleHeartbeatChecked(packet, st, sock) ==
  IF DevIdMismatch(packet) THEN Throw(st, <<>>)
  ELSE Done(st, <<Write(sock, HeartbeatResponse(packet))>>)

HandleHeartbeat(packet, st, sock) ==
  Done(st, <<Write(sock, HeartbeatResponse(packet))>>)

HandlePacketResult(packet, st, srv, sock, now) ==
  IF packet.commandByte = DP_QUERY THEN HandleQuery(packet, st, sock)
  ELSE IF packet.commandByte = CONTROL THEN HandleControl(packet, st, srv, sock, now)
  ELSE IF packet.commandByte = HEART_BEAT THEN HandleHeartbeat(packet, st, sock)
  ELSE Done(st, <<>>)

(***************************************************************************)
(* The state after construction: nothing started, options.state or {}.     *)
(***************************************************************************)
InitialStates == {EmptyState, ExampleState}

Init ==
  /\ state \in InitialStates
  /\ server = "none"
  /\ socket = 0
  /\ conn = [c \in Conns |-> "none"]
  /\ alive = TRUE
  /\ pending = 0
  /\ cur = 0
  /\ lastOp = "new"
  /\ lastPkt = NoPacket
  /\ pre = state
  /\ written = <<>>
  /\ threw = FALSE
  /\ ret = <<>>
  /\ broadcastSocket = 0
  /\ broadcastInterval = 0
  /\ usock = [u \in Udps |-> "none"]
  /\ timers = {}
  /\ read = <<>>
  /\ log = <<>>
  /\ step = 0

\* A slip: the Control handler awaits each setProperty, so that the event loop
\* runs other callbacks between two of them.
IdleBetweenSetProperties == alive /\ pending = 0

\* JavaScript runs one callback to completion: nothing else runs while the
\* packets of a 'data' event are being handled, nor after the process died.
Idle == alive /\ pending = 0 /\ step = 0

\* What an operation that handles no packet records.
Record(op, writes, value) ==
  /\ lastOp' = op
  /\ lastPkt' = NoPacket
  /\ pre' = state
  /\ written' = writes
  /\ threw' = FALSE
  /\ ret' = value

(***************************************************************************)
(* The server and its connections.                                         *)
(***************************************************************************)
StartServer ==
  /\ Idle
  /\ server # "listening"
  /\ server' = "listening"
  /\ Record("startServer", <<>>, <<>>)
  /\ UNCHANGED <<state, socket, conn, alive, pending, cur, bcast, read, log, step>>

\* The connection listener: this.socket = socket; socket.on('data', ...).
Accept(c) ==
  /\ Idle
  /\ server = "listening"
  /\ conn[c] = "none"
  /\ \A d \in Conns : d < c => conn[d] # "none"
  /\ conn' = [conn EXCEPT ![c] = "open"]
  /\ socket' = c
  /\ Record("accept", <<>>, <<>>)
  /\ UNCHANGED <<state, server, alive, pending, cur, bcast, read, log, step>>

\* The peer ends connection c; this.socket is left as it is.
PeerClose(c) ==
  /\ Idle
  /\ conn[c] = "open"
  /\ conn' = [conn EXCEPT ![c] = "closed"]
  /\ Record("peerClose", <<>>, <<>>)
  /\ UNCHANGED <<state, server, socket, alive, pending, cur, bcast, read, log, step>>

Shutdown ==
  /\ Idle
  /\ conn' = IF socket # 0 THEN [conn EXCEPT ![socket] = "destroyed"] ELSE conn
  /\ server' = IF server # "none" THEN "closed" ELSE server
  \* broadcastSocket.close(); clearInterval(this.broadcastInterval): neither
  \* field is reset
  /\ usock' = IF broadcastSocket # 0 THEN [usock EXCEPT ![broadcastSocket] = "closed"]
              ELSE usock
  /\ timers' = IF broadcastSocket # 0 THEN timers \ {broadcastInterval} ELSE timers
  /\ Record("shutdown", <<>>, <<>>)
  /\ UNCHANGED <<state, socket, alive, pending, cur,
                 broadcastSocket, broadcastInterval, read, log, step>>

(***************************************************************************)
(* A 'data' event on connection c: parser.parse(data) yields n packets,    *)
(* and forEach handles them one after the other.  A throw leaves the       *)
(* forEach and the listener, which catches nothing: the exception is       *)
(* uncaught and the process dies.                                          *)
(***************************************************************************)
DataEvent(c, n) ==
  /\ Idle
  /\ conn[c] = "open"
  /\ pending' = n
  /\ cur' = c
  /\ Record("data", <<>>, <<>>)
  /\ UNCHANGED <<state, server, socket, conn, alive, bcast, read, log, step>>

HandlePacket(packet) ==
  /\ alive
  /\ pending > 0
  /\ LET r == HandlePacketResult(packet, state, server, socket, Now)
     IN  /\ state' = r.state
         /\ written' = r.written
         /\ threw' = r.threw
         /\ alive' = ~r.threw
  /\ pending' = pending - 1
  /\ lastOp' = "packet"
  /\ lastPkt' = packet
  /\ pre' = state
  /\ ret' = <<>>
  /\ UNCHANGED <<server, socket, conn, cur, bcast, read, log, step>>

(***************************************************************************)
(* The calls of the host.                                                  *)
(***************************************************************************)
HostSetProperty(property, value) ==
  /\ Idle
  /\ LET r == SetProperty(state, server, socket, property, value)
     IN  /\ state' = r.state
         /\ Record("setProperty", r.written, <<property, value, r.ret>>)
  /\ UNCHANGED <<server, socket, conn, alive, pending, cur, bcast, read, log, step>>

HostGetProperty(property) ==
  /\ Idle
  /\ Record("getProperty", <<>>,
            IF property \in DOMAIN state THEN <<property, state[property]>>
            ELSE <<property>>)
  /\ UNCHANGED <<state, server, socket, conn, alive, pending, cur, bcast, read, log, step>>

HostGetState ==
  /\ Idle
  /\ Record("getState", <<>>, <<state>>)
  /\ UNCHANGED <<state, server, socket, conn, alive, pending, cur, bcast, read, log, step>>

HostSetState(newState) ==
  /\ Idle
  /\ state' = newState
  /\ Record("setState", <<>>, <<newState>>)
  /\ UNCHANGED <<server, socket, conn, alive, pending, cur, bcast, read, log, step>>

Next ==
  \/ StartServer
  \/ \E c \in Conns : Accept(c)
  \/ \E c \in Conns : PeerClose(c)
  \/ Shutdown
  \/ \E c \in Conns, n \in 1..MaxPackets : DataEvent(c, n)
  \/ \E packet \in Packets : HandlePacket(packet)
  \/ \E property \in Keys, value \in Values : HostSetProperty(property, value)
  \/ \E property \in Keys : HostGetProperty(property)
  \/ HostGetState
  \/ \E newState \in DpsMaps : HostSetState(newState)

Spec == Init /\ [][Next]_vars

(***************************************************************************)
(* startUDPBroadcast and its timer.                                        *)
(***************************************************************************)
\* The broadcast: a DP_QUERY frame without sequenceN, {devId, gwId, ip}.
DiscoveryMessage ==
  [commandByte |-> DP_QUERY, sequenceN |-> Undefined,
   data |-> [type |-> "object",
             value |-> [devId |-> Id, gwId |-> Id, ip |-> "localhost"]]]

\* A slip: the timer is started whether or not there is one already.
BroadcastIntervalIgnored(interval) == TRUE

\* !this.broadcastInterval
NoBroadcastInterval(interval) == interval = 0

\* Creates a socket, keeps it in this.broadcastSocket and binds it.
StartUDPBroadcast(u) ==
  /\ Idle
  /\ usock[u] = "none"
  /\ \A v \in Udps : v < u => usock[v] # "none"
  /\ usock' = [usock EXCEPT ![u] = "binding"]
  /\ broadcastSocket' = u
  /\ Record("startUDPBroadcast", <<>>, <<>>)
  /\ UNCHANGED <<state, server, socket, conn, alive, pending, cur,
                 broadcastInterval, timers, read, log, step>>

\* The 'listening' event of socket u, once it is bound.
Listening(u) ==
  /\ Idle
  /\ usock[u] = "binding"
  /\ usock' = [usock EXCEPT ![u] = "listening"]
  /\ IF NoBroadcastInterval(broadcastInterval)
       THEN broadcastInterval' = u /\ timers' = timers \cup {u}
       ELSE UNCHANGED <<broadcastInterval, timers>>
  /\ Record("listening", <<>>, <<>>)
  /\ UNCHANGED <<state, server, socket, conn, alive, pending, cur,
                 broadcastSocket, read, log, step>>

\* Timer t fires: its callback sends the message on this.broadcastSocket.
Tick(t) ==
  /\ Idle
  /\ t \in timers
  /\ Record("broadcast", <<Write(broadcastSocket, DiscoveryMessage)>>, <<t>>)
  /\ UNCHANGED <<state, server, socket, conn, alive, pending, cur, bcast, read, log, step>>

NextBroadcast ==
  \/ \E u \in Udps : StartUDPBroadcast(u)
  \/ \E u \in Udps : Listening(u)
  \/ \E t \in Udps : Tick(t)
  \/ Shutdown
  \/ StartServer
  \/ \E c \in Conns : Accept(c)

SpecBroadcast == Init /\ [][NextBroadcast]_vars


(***************************************************************************)
(* _handleRequest as a whole: one 'data' event whose packets are all       *)
(* given, handled by a single forEach.                                     *)
(***************************************************************************)
\* The packets such a read is made of: one of each way a packet is answered
\* (a query answered, a query refused, a heartbeat, a Control request of two
\* data points).
ReadPackets ==
  {p \in Packets :
     /\ p.sequenceN = 0
     /\ p.commandByte \in {DP_QUERY, CONTROL, HEART_BEAT}
     /\ p.commandByte # DP_QUERY => p.devId = Id
     /\ p.commandByte = CONTROL =>
          (p.t = Now /\ p.hasDps /\ p.dps = [k \in Keys |-> k = "1"])}

Reads == UNION {[1..n -> ReadPackets] : n \in 1..MaxPackets}

\* The writes made for the i-th packet of a read.
Tagged(i, writes) ==
  [j \in 1..Len(writes) |-> [index |-> i, to |-> writes[j].to, frame |-> writes[j].frame]]

\* A slip: the packets are taken from the last to the first.
RECURSIVE BackwardsFrom(_, _, _, _, _, _)
BackwardsFrom(packets, i, acc, srv, sock, now) ==
  IF i < 1 \/ acc.threw THEN acc
  ELSE LET r == HandlePacketResult(packets[i], acc.state, srv, sock, now)
       IN  BackwardsFrom(packets, i - 1,
                         [state |-> r.state, log |-> acc.log \o Tagged(i, r.written),
                          threw |-> r.threw, handled |-> acc.handled + 1],
                         srv, sock, now)

ForEachPacketReversed(packets, i, acc, srv, sock, now) ==
  BackwardsFrom(packets, Len(packets), acc, srv, sock, now)

\* parsedPackets.forEach(packet => ...) from the i-th packet on: a throw
\* ends it.
RECURSIVE ForEachPacket(_, _, _, _, _, _)
ForEachPacket(packets, i, acc, srv, sock, now) ==
  IF i > Len(packets) \/ acc.threw THEN acc
  ELSE LET r == HandlePacketResult(packets[i], acc.state, srv, sock, now)
       IN  ForEachPacket(packets, i + 1,
                         [state |-> r.state, log |-> acc.log \o Tagged(i, r.written),
                          threw |-> r.threw, handled |-> acc.handled + 1],
                         srv, sock, now)

HandleRequest(c, packets) ==
  /\ Idle
  /\ conn[c] = "open"
  /\ LET r == ForEachPacket(packets, 1,
                            [state |-> state, log |-> <<>>, threw |-> FALSE, handled |-> 0],
                            server, socket, Now)
     IN  /\ state' = r.state
         /\ log' = r.log
         /\ written' = [j \in 1..Len(r.log) |-> Write(r.log[j].to, r.log[j].frame)]
         /\ threw' = r.threw
         /\ alive' = ~r.threw
         /\ ret' = <<r.handled>>
  /\ read' = packets
  /\ cur' = c
  /\ lastOp' = "request"
  /\ lastPkt' = NoPacket
  /\ pre' = state
  /\ UNCHANGED <<server, socket, conn, pending, bcast, step>>

NextRead ==
  \/ StartServer
  \/ \E c \in Conns : Accept(c)
  \/ \E c \in Conns, packets \in Reads : HandleRequest(c, packets)

SpecRead == Init /\ [][NextRead]_vars

(***************************************************************************)
(* The Control branch of _handleRequest one statement at a time: the       *)
(* checks, then one setProperty call per step, then the two responses.     *)
(* Nothing in it hands control back to the event loop, so the calls of the *)
(* host, which need the engine idle, cannot run in between.                *)
(***************************************************************************)
\* The Control packets followed this way.
StepPackets == {p \in ControlPackets : p.sequenceN = 0}

\* The checks of the Control branch; a failed one throws.
BeginControl(c, packet) ==
  /\ Idle
  /\ conn[c] = "open"
  /\ LET refused == \/ DevIdMismatch(packet)
                    \/ BadTimestamp(Now, packet.t)
                    \/ ~packet.hasDps
     IN  /\ threw' = refused
         /\ alive' = ~refused
         /\ step' = IF refused THEN 0 ELSE 1
         /\ lastOp' = IF refused THEN "packet" ELSE "control"
  /\ lastPkt' = packet
  /\ pre' = state
  /\ written' = <<>>
  /\ ret' = <<>>
  /\ cur' = c
  /\ UNCHANGED <<state, server, socket, conn, pending, bcast, read, log>>

\* One iteration of Object.keys(decryptedData.dps).forEach.
SetOneProperty ==
  /\ alive
  /\ step # 0
  /\ step <= Len(ObjectKeys(lastPkt.dps))
  /\ LET property == ObjectKeys(lastPkt.dps)[step]
         r == SetProperty(state, server, socket, property, lastPkt.dps[property])
     IN  /\ state' = r.state
         /\ written' = written \o r.written
  /\ step' = step + 1
  /\ UNCHANGED <<server, socket, conn, alive, pending, cur,
                 lastOp, lastPkt, pre, threw, ret, bcast, read, log>>

\* The acknowledgment and the status update.
FinishControl ==
  /\ alive
  /\ step # 0
  /\ step > Len(ObjectKeys(lastPkt.dps))
  /\ written' = written \o <<Write(socket, ConfirmChangeResponse(lastPkt)),
                             Write(socket, StatusUpdateResponse(state))>>
  /\ step' = 0
  /\ lastOp' = "packet"
  /\ UNCHANGED <<state, server, socket, conn, alive, pending, cur,
                 lastPkt, pre, threw, ret, bcast, read, log>>

NextSteps ==
  \/ StartServer
  \/ \E c \in Conns : Accept(c)
  \/ \E c \in Conns, packet \in StepPackets : BeginControl(c, packet)
  \/ SetOneProperty
  \/ FinishControl
  \/ \E property \in Keys, value \in Values : HostSetProperty(property, value)
  \/ \E newState \in DpsMaps : HostSetState(newState)

SpecSteps == Init /\ [][NextSteps]_vars

(***************************************************************************)
(* Vocabulary of the properties.                                           *)
(***************************************************************************)
\* The last operation handled a packet of this command type.
Handled(cmd) == lastOp = "packet" /\ lastPkt.commandByte = cmd

\* The frames that operation wrote, in order.
FramesWritten == [i \in 1..Len(written) |-> written[i].frame]

\* An unsolicited state update: no sequence number, a dps in its data.
IsStatePush(f) ==
  /\ f.sequenceN = Undefined
  /\ f.commandByte \in {CONTROL, STATUS}
  /\ f.data.type = "object"
  /\ f.data.value # <<>>

\* The frames written in direct response to the request.
DirectResponses == SelectSeq(FramesWritten, LAMBDA f : ~IsStatePush(f))

\* The timestamp of the last packet is further than the limit from the clock.
Stale == lastPkt.t # Undefined /\ Abs(Now - lastPkt.t) > MaxSkew

\* st is st0 with every data point of dps set and nothing else changed.
Updated(st, st0, dps) ==
  /\ DOMAIN st = DOMAIN st0 \cup DOMAIN dps
  /\ \A k \in DOMAIN dps : st[k] = dps[k]
  /\ \A k \in DOMAIN st0 \ DOMAIN dps : st[k] = st0[k]

\* this.server && this.socket, and the socket is a connection still open.
ConnectionActive == server = "listening" /\ socket # 0 /\ conn[socket] = "open"

(***************************************************************************)
(* C1: every frame written in direct response to a request with sequence   *)
(* number N (the query response, the control acknowledgment, the pong)     *)
(* carries N; the only frames without a sequence number are state pushes.  *)
(***************************************************************************)
C1_SequenceEchoed ==
  lastOp = "packet" =>
    /\ \A i \in 1..Len(DirectResponses) :
         DirectResponses[i].sequenceN = lastPkt.sequenceN
    /\ \A i \in 1..Len(FramesWritten) :
         FramesWritten[i].sequenceN = Undefined => IsStatePush(FramesWritten[i])
    /\ (~threw /\ lastPkt.commandByte \in {DP_QUERY, CONTROL, HEART_BEAT})
         => Len(DirectResponses) = 1

C1_Witness ==
  /\ Handled(CONTROL) /\ ~threw
  /\ lastPkt.sequenceN = 1
  /\ Len(DirectResponses) = 1
  /\ Len(FramesWritten) > Len(DirectResponses)

(***************************************************************************)
(* C2: an accepted Control request with a non-empty dps writes exactly two *)
(* frames: the empty acknowledgment with its sequence number, then a push  *)
(* without sequence number carrying the state after all updates.           *)
(***************************************************************************)
C2_ExactlyTwoFrames ==
  (Handled(CONTROL) /\ ~threw /\ DOMAIN lastPkt.dps # {}) =>
    /\ Len(FramesWritten) = 2
    /\ FramesWritten[1].sequenceN = lastPkt.sequenceN
    /\ FramesWritten[1].data.value = <<>>
    /\ FramesWritten[2].sequenceN = Undefined
    /\ FramesWritten[2].data = StateData(state)

(***************************************************************************)
(* C3: a Control request is all-or-nothing: once handled, either every     *)
(* data point of its dps holds the requested value and the others are      *)
(* unchanged, or (it was refused) the state is what it was before.         *)
(***************************************************************************)
C3_AllOrNothing ==
  Handled(CONTROL) =>
    /\ threw => state = pre
    /\ ~threw => Updated(state, pre, lastPkt.dps)
    /\ (DevIdMismatch(lastPkt) \/ Stale) => state = pre

C3_Witness ==
  /\ Handled(CONTROL) /\ ~threw
  /\ DOMAIN lastPkt.dps = Keys
  /\ \A k \in Keys : k \in DOMAIN pre /\ pre[k] # state[k]

(***************************************************************************)
(* C4: a Control request whose timestamp is more than 10 seconds from the  *)
(* current time is refused with an error, the state is unchanged and no    *)
(* frame is written for it.                                                *)
(***************************************************************************)
C4_StaleRefused ==
  (Handled(CONTROL) /\ Stale) => (threw /\ state = pre /\ written = <<>>)

C4_Witness ==
  /\ Handled(CONTROL) /\ threw
  /\ lastPkt.devId = Id
  /\ lastPkt.t = Now - MaxSkew - 1
  /\ DOMAIN lastPkt.dps # {}

(***************************************************************************)
(* C5: a Query or Control request of another device id raises an error,    *)
(* writes nothing and leaves the state unchanged.                          *)
(***************************************************************************)
C5_IdentityMismatchRefused ==
  ((Handled(DP_QUERY) \/ Handled(CONTROL)) /\ lastPkt.devId # Id) =>
    (threw /\ written = <<>> /\ state = pre)

C5_Witness ==
  /\ Handled(CONTROL) /\ threw
  /\ lastPkt.devId # Id
  /\ lastPkt.t = Now
  /\ DOMAIN lastPkt.dps # {}

(***************************************************************************)
(* C6: after a request was refused with an error the engine remains        *)
(* servable: the process is not terminated, so that a later request can    *)
(* be answered.                                                            *)
(***************************************************************************)
C6_ServableAfterRefusal ==
  (lastOp = "packet" /\ threw) => alive

(***************************************************************************)
(* C7: when a frame of a read is refused, the frames that follow it in     *)
(* the same read are still handled.                                        *)
(***************************************************************************)
C7_RestOfReadHandled ==
  (threw /\ pending > 0) => ENABLED (\E packet \in Packets : HandlePacket(packet))

(***************************************************************************)
(* C8: a Query request with the engine's device id and sequence number N   *)
(* produces exactly one frame, of command 10, with sequence number N and   *)
(* {devId: id, gwId: id, dps: the state}; no Query changes the state.      *)
(***************************************************************************)
C8_QueryAnswered ==
  Handled(DP_QUERY) =>
    /\ state = pre
    /\ lastPkt.devId = Id =>
         /\ ~threw
         /\ Len(written) = 1
         /\ written[1].to = socket
         /\ written[1].frame.commandByte = 10
         /\ written[1].frame.sequenceN = lastPkt.sequenceN
         /\ written[1].frame.data.value = [devId |-> Id, gwId |-> Id, dps |-> pre]

C8_Witness ==
  /\ Handled(DP_QUERY) /\ ~threw
  /\ lastPkt.sequenceN = 1
  /\ pre = ExampleState
  /\ Len(written) = 1

(***************************************************************************)
(* C9: a Heartbeat request with sequence number N produces exactly one     *)
(* frame, a Heartbeat response with an empty payload and sequence number   *)
(* N, whatever its device id, and leaves the state unchanged.              *)
(***************************************************************************)
C9_HeartbeatAnswered ==
  Handled(HEART_BEAT) =>
    /\ ~threw
    /\ state = pre
    /\ Len(written) = 1
    /\ written[1].to = socket
    /\ written[1].frame.commandByte = HEART_BEAT
    /\ written[1].frame.sequenceN = lastPkt.sequenceN
    /\ written[1].frame.data.value = <<>>

C9_Witness ==
  /\ Handled(HEART_BEAT) /\ ~threw
  /\ lastPkt.devId # Id
  /\ lastPkt.sequenceN = 1
  /\ Len(written) = 1

(***************************************************************************)
(* C10: with a connection active, setProperty(key, value) of the host sets *)
(* the state's key to value, leaves the other keys unchanged, returns      *)
(* value and writes exactly one Control-type push without sequence number  *)
(* whose dps is the whole state, the new value included.                   *)
(***************************************************************************)
C10_HostSetPropertyPushes ==
  (lastOp = "setProperty" /\ ConnectionActive) =>
    LET property == ret[1]
        value == ret[2]
    IN  /\ Updated(state, pre, [k \in {property} |-> value])
        /\ ret[3] = value
        /\ Len(written) = 1
        /\ written[1].to = socket
        /\ written[1].frame.commandByte = CONTROL
        /\ written[1].frame.sequenceN = Undefined
        /\ written[1].frame.data.value = [devId |-> Id, gwId |-> Id, dps |-> state]

C10_Witness ==
  /\ lastOp = "setProperty" /\ ConnectionActive
  /\ pre = ExampleState
  /\ ret[1] = "1" /\ ret[2] = TRUE
  /\ state # pre
  /\ Len(written) = 1

(***************************************************************************)
(* C11: setProperty emits its push only while a connection is active:      *)
(* with no connection accepted yet, with the last accepted connection      *)
(* closed by the peer, or after shutdown, it updates the state and makes   *)
(* no write to any socket.                                                 *)
(***************************************************************************)
C11_NoPushWithoutConnection ==
  (lastOp = "setProperty" /\ ~ConnectionActive) =>
    /\ Updated(state, pre, [k \in {ret[1]} |-> ret[2]])
    /\ written = <<>>

(***************************************************************************)
(* C14: once shutdown has returned nothing the engine created is still     *)
(* held: the server no longer listens, no accepted connection is open, no  *)
(* broadcast socket is open and no broadcast timer is active.              *)
(***************************************************************************)
C14_ShutdownReleasesAll ==
  lastOp = "shutdown" =>
    /\ server # "listening"
    /\ \A c \in Conns : conn[c] # "open"
    /\ \A u \in Udps : usock[u] \in {"none", "closed"}
    /\ timers = {}

(***************************************************************************)
(* C15: a request that arrives on one connection is answered on that       *)
(* connection or not at all: handling it never writes a frame to another   *)
(* connection.                                                             *)
(***************************************************************************)
C15_AnsweredOnOwnConnection ==
  lastOp = "packet" => \A i \in 1..Len(written) : written[i].to = cur

(***************************************************************************)
(* C18: a Control request modifies the state, or is acknowledged, only if  *)
(* it carries a timestamp t with |now - t| <= 10; one that carries no      *)
(* timestamp is refused like a stale one.                                  *)
(***************************************************************************)
C18_OnlyTimestampedControlApplies ==
  (Handled(CONTROL) /\ (state # pre \/ written # <<>> \/ ~threw)) =>
    (lastPkt.t # Undefined /\ Abs(Now - lastPkt.t) <= MaxSkew)

(***************************************************************************)
(* C19: no frame written while a Control request with two or more data     *)
(* points is handled carries a state in which only some of them have been  *)
(* applied: every dps written is the state before the request or holds     *)
(* every requested value.                                                  *)
(***************************************************************************)
C19_NoPartialSnapshot ==
  (Handled(CONTROL) /\ ~threw /\ Cardinality(DOMAIN lastPkt.dps) >= 2) =>
    \A i \in 1..Len(FramesWritten) :
      LET data == FramesWritten[i].data.value
      IN  data # <<>> =>
            \/ data.dps = pre
            \/ \A k \in DOMAIN lastPkt.dps :
                 k \in DOMAIN data.dps /\ data.dps[k] = lastPkt.dps[k]

(***************************************************************************)
(* C13: whatever startUDPBroadcast calls were made, two or more without a  *)
(* shutdown in between included, at most one broadcast timer is active, so *)
(* an interval sends at most one discovery frame.                          *)
(***************************************************************************)
C13_AtMostOneTimer ==
  /\ Cardinality(timers) <= 1
  /\ timers # {} => timers = {broadcastInterval}

C13_Witness ==
  /\ \E u, v \in Udps : u # v /\ usock[u] = "listening" /\ usock[v] = "listening"
  /\ Cardinality(timers) = 1
  /\ lastOp = "broadcast"

(***************************************************************************)
(* C20: the broadcast can be restarted: after startUDPBroadcast, shutdown, *)
(* startUDPBroadcast, once the new socket is listening a timer is active   *)
(* that sends the discovery frame at every interval.                       *)
(***************************************************************************)
C20_BroadcastRestarts ==
  (broadcastSocket # 0 /\ usock[broadcastSocket] = "listening") => timers # {}

(***************************************************************************)
(* C12: the responses of a read are written in the order its requests      *)
(* arrived: every frame written for a packet precedes every frame written  *)
(* for a later packet, each direct response is the one of its packet, and  *)
(* unless the read was cut short by an error no request is left out.       *)
(***************************************************************************)
C12_ResponsesInArrivalOrder ==
  lastOp = "request" =>
    /\ \A i, j \in 1..Len(log) : i < j => log[i].index <= log[j].index
    /\ \A i \in 1..Len(log) :
         /\ log[i].index \in 1..Len(read)
         /\ ~IsStatePush(log[i].frame) =>
              log[i].frame.commandByte = read[log[i].index].commandByte
    /\ ~threw =>
         \A k \in 1..Len(read) :
           read[k].commandByte \in {DP_QUERY, CONTROL, HEART_BEAT} =>
             \E i \in 1..Len(log) : log[i].index = k /\ ~IsStatePush(log[i].frame)

C12_Witness ==
  /\ lastOp = "request" /\ ~threw
  /\ Len(read) = 2
  /\ read[1].commandByte = CONTROL /\ DOMAIN read[1].dps = Keys
  /\ read[2].commandByte = DP_QUERY
  /\ Len(log) = 5
  /\ log[5].index = 2

(***************************************************************************)
(* C17: the writes of the host (setProperty, setState) and those of the    *)
(* Control handler exclude each other: no call of the host runs between    *)
(* the first and the last setProperty of a Control request, so that when   *)
(* the request is answered the state and the frames are those of the       *)
(* handler run in one piece on the state it found.                         *)
(***************************************************************************)
C17_HostAndControlExclusive ==
  [][/\ lastOp' \in {"setProperty", "setState"} => (step = 0 /\ pending = 0)
     /\ (step # 0 /\ step' = 0 /\ alive') =>
          LET whole == HandleControl(lastPkt', pre', server', socket', Now)
          IN  state' = whole.state /\ written' = whole.written]_vars

C17_Witness ==
  /\ lastOp = "control"
  /\ step = 2
  /\ DOMAIN lastPkt.dps = Keys
  /\ state # pre
  /\ \E k \in Keys : k \notin DOMAIN state \/ state[k] # lastPkt.dps[k]

=============================================================================
